---- MODULE Spec2Model ----
(***************************************************************************)
(* A model of src/src/server.ts: the routes of the gateway, and above all  *)
(* its POST /chat route.                                                   *)
(*                                                                         *)
(* A request's body is validated by the zod schema (with the refinement    *)
(* validateMessagePattern); a rejected request is answered 400 by the      *)
(* validator hook; an accepted one reaches the handler, which calls the    *)
(* provider and returns a 200 response whose body is a ReadableStream fed  *)
(* by start(controller): one SSE event per fragment of result.textStream,  *)
(* then the [DONE] event, or the error event when the iteration throws.    *)
(*                                                                         *)
(* JavaScript runs a callback to its next await without interleaving, so   *)
(* one action is one such run: the body parse, the validation with the     *)
(* handler it calls through next(), and each resumption of the for-await   *)
(* loop (a fragment, exhaustion, or a failure) up to the next await.       *)
(* The client may cancel the response stream between two such runs.        *)
(*                                                                         *)
(* A request's body is taken as already parsed JSON holding a messages     *)
(* array; reading and parsing the bytes is the framework's.                *)
(***************************************************************************)
EXTENDS Integers, Sequences, FiniteSets, TLC

VARIABLES
    req,        \* req[r]: request r, [method, path, messages]: its method, its
                \* path and the messages array of its parsed JSON body
    pc,         \* pc[r]: where request r is in its life
    issues,     \* issues[r]: the zod issues of the validation of r's body
    response,   \* response[r]: the HTTP response returned for r
    caught,     \* caught[r]: the value caught by the handler's catch (line 157)
    calls,      \* calls[r]: the streamText calls made for r (their arguments)
    adapter,    \* adapter[r]: the state of result.textStream's iteration
    delivered,  \* delivered[r]: the fragments the for-await loop has received
    stream      \* stream[r]: the ReadableStream of r's response

vars == <<req, pc, issues, response, caught, calls, adapter, delivered, stream>>

(***************************************************************************)
(* Bounds of the model.                                                    *)
(***************************************************************************)
MaxMessages == 3

MaxFragments == 2

\* The requests in flight are the domain of pc.
Requests == DOMAIN pc

(***************************************************************************)
(* Inputs: message lists as they arrive in a JSON body.  "system" stands   *)
(* for any role string outside the schema's enum, "" for an empty content. *)
(***************************************************************************)
Roles == {"user", "assistant"}

BodyRoles == Roles \cup {"system"}

BodyContents == {"", "hi"}

BodyMessages == [role : BodyRoles, content : BodyContents]

MessageLists == UNION {[1..n -> BodyMessages] : n \in 0..MaxMessages}

\* Methods and paths of the requests: the registered ones and one of each
\* that no route names.
Methods == {"GET", "POST", "OPTIONS", "DELETE"}

Paths == {"/chat", "/health", "/nonexistent"}

\* The requests for POST /chat, with every message list.
ChatRequests == [method : {"POST"}, path : {"/chat"}, messages : MessageLists]

\* The other requests; their body is not read.
OtherRequests ==
    {q \in [method : Methods, path : Paths, messages : {<< >>}] :
        ~(q.method = "POST" /\ q.path = "/chat")}

\* The instants new Date() can give.
Timestamps == {"2026-01-01T00:00:00.000Z", "2026-01-01T00:00:01.000Z"}

\* Fragments are sequences of characters; one holds characters that
\* JSON.stringify escapes.
Fragments == { <<"H", "e", "l">>, <<"l", "o">>, <<" ", "\"", "\n">> }

\* What a throw in the handler can carry: an Error with its message, or
\* a value that is no Error.
Thrown == { [isError |-> TRUE, message |-> "Missing API key"],
            [isError |-> FALSE, message |-> ""] }

NoError == [isError |-> FALSE, message |-> "none"]

(***************************************************************************)
(* The refinement of the messages array (lines 192-220).  Indices are      *)
(* 1-based here: messages[i] of the code is messages[i + 1].               *)
(***************************************************************************)
\* The same function with the even-length rule asking for a first "user".
validateMessagePatternEvenUser(messages) ==
    IF Len(messages) = 0 THEN FALSE
    ELSE IF messages[Len(messages)].role # "user" THEN FALSE
    ELSE IF \E i \in 2..Len(messages) : messages[i].role = messages[i - 1].role
         THEN FALSE
    ELSE IF Len(messages) % 2 = 1 /\ messages[1].role # "user" THEN FALSE
    ELSE IF Len(messages) % 2 # 1 /\ messages[1].role # "user" THEN FALSE
    ELSE TRUE

\* The same function without the loop over adjacent messages.
validateMessagePatternNoLoop(messages) ==
    IF Len(messages) = 0 THEN FALSE
    ELSE IF messages[Len(messages)].role # "user" THEN FALSE
    ELSE IF Len(messages) % 2 = 1 /\ messages[1].role # "user" THEN FALSE
    ELSE IF Len(messages) % 2 # 1 /\ messages[1].role # "assistant" THEN FALSE
    ELSE TRUE

\* The same function with the parity checks ahead of the loop.
returnSiteParityFirst(messages) ==
    IF Len(messages) = 0 THEN "lastNotUser"
    ELSE IF messages[Len(messages)].role # "user" THEN "lastNotUser"
    ELSE IF Len(messages) % 2 = 1 /\ messages[1].role # "user" THEN "oddNotUser"
    ELSE IF Len(messages) % 2 # 1 /\ messages[1].role # "assistant"
         THEN "evenNotAssistant"
    ELSE IF \E i \in 2..Len(messages) : messages[i].role = messages[i - 1].role
         THEN "adjacentEqual"
    ELSE "valid"

\* The return statement validateMessagePattern leaves by: "lastNotUser"
\* (line 196), "adjacentEqual" (line 202), "oddNotUser" (line 213),
\* "evenNotAssistant" (line 216), "valid" (line 219).  messages[0] is read
\* at line 210, after the first two.
returnSite(messages) ==
    \* messages.at(-1) of an empty array is undefined, and
    \* undefined?.role !== "user" holds
    IF Len(messages) = 0 THEN "lastNotUser"
    ELSE IF messages[Len(messages)].role # "user" THEN "lastNotUser"
    ELSE IF \E i \in 2..Len(messages) : messages[i].role = messages[i - 1].role
         THEN "adjacentEqual"
    ELSE LET isOddCount == Len(messages) % 2 = 1
             firstMessage == messages[1]
         IN  IF isOddCount /\ firstMessage.role # "user" THEN "oddNotUser"
             ELSE IF ~isOddCount /\ firstMessage.role # "assistant"
                  THEN "evenNotAssistant"
             ELSE "valid"

validateMessagePattern(messages) == returnSite(messages) = "valid"

(***************************************************************************)
(* The zod schema of the body (lines 64-77) and what parsing with it       *)
(* reports.  zod collects the issues of the array's own checks and of      *)
(* every element; a value of the wrong type or outside an enum aborts the  *)
(* parse of what contains it, and a refinement does not run on an aborted  *)
(* value, while a failed .min() leaves the value only dirty and the        *)
(* refinement still runs.                                                  *)
(***************************************************************************)
EmptyArrayMessage == "Messages array cannot be empty"

EmptyContentMessage == "Message content cannot be empty"

PatternMessage ==
    "Messages must alternate between user and assistant roles, and the last message must be from the user."

Issue(path, message, code) == [path |-> path, message |-> message, code |-> code]

\* z.object({role: z.enum([...]), content: z.string().min(1, ...)}) on the
\* element at code index i - 1
ElementIssues(m, i) ==
    (IF m.role \notin Roles
     THEN << Issue(<<"messages", ToString(i - 1), "role">>,
                   "Invalid enum value", "invalid_enum_value") >>
     ELSE << >>)
    \o
    (IF Len(m.content) < 1
     THEN << Issue(<<"messages", ToString(i - 1), "content">>,
                   EmptyContentMessage, "too_small") >>
     ELSE << >>)

RECURSIVE ElementsIssues(_, _)
ElementsIssues(messages, i) ==
    IF i > Len(messages) THEN << >>
    ELSE ElementIssues(messages[i], i) \o ElementsIssues(messages, i + 1)

\* .min(1, "Messages array cannot be empty")
ArrayIssues(messages) ==
    IF Len(messages) < 1
    THEN << Issue(<<"messages">>, EmptyArrayMessage, "too_small") >>
    ELSE << >>

\* an element whose role is outside the enum aborts the array's parse
ParseAborted(messages) == \E i \in 1..Len(messages) : messages[i].role \notin Roles

\* .refine(validateMessagePattern, {message: ...})
RefineIssues(messages) ==
    IF ~ParseAborted(messages) /\ ~validateMessagePattern(messages)
    THEN << Issue(<<"messages">>, PatternMessage, "custom") >>
    ELSE << >>

\* schema.safeParse(body): {success, error.issues}
safeParse(body) ==
    LET found == ArrayIssues(body.messages)
                 \o ElementsIssues(body.messages, 1)
                 \o RefineIssues(body.messages)
    IN  [success |-> found = << >>, issues |-> found]

(***************************************************************************)
(* The validator hook (lines 78-92): the 400 response of a failed parse.   *)
(***************************************************************************)
RECURSIVE Join(_)
\* issue.path.join(".")
Join(path) ==
    IF Len(path) = 0 THEN ""
    ELSE IF Len(path) = 1 THEN path[1]
    ELSE path[1] \o "." \o Join(Tail(path))

ValidationError(result) ==
    [status |-> 400,
     json |-> [error |-> "Validation Error",
               details |-> [i \in 1..Len(result.issues) |->
                               [path |-> Join(result.issues[i].path),
                                message |-> result.issues[i].message,
                                code |-> result.issues[i].code]]]]

(***************************************************************************)
(* The SSE events (lines 128, 133, 139-141).                               *)
(***************************************************************************)
\* JSON.stringify of one character of a string
JSONChar(c) ==
    IF c = "\"" THEN "\\\""
    ELSE IF c = "\\" THEN "\\\\"
    ELSE IF c = "\n" THEN "\\n"
    ELSE c

RECURSIVE JSONChars(_)
JSONChars(chars) ==
    IF Len(chars) = 0 THEN ""
    ELSE JSONChar(Head(chars)) \o JSONChars(Tail(chars))

\* JSON.stringify(s) for a string s, given as its characters
JSONString(chars) == "\"" \o JSONChars(chars) \o "\""

\* `data: ${JSON.stringify({ content: chunk })}\n\n`
sseData(chunk) == "data: " \o "{\"content\":" \o JSONString(chunk) \o "}" \o "\n\n"

\* `data: [DONE]\n\n`
doneSignal == "data: [DONE]\n\n"

\* `data: ${JSON.stringify({ error: "Stream error occurred" })}\n\n`
errorData ==
    "data: " \o "{\"error\":"
    \o JSONString(<<"S","t","r","e","a","m"," ","e","r","r","o","r"," ",
                    "o","c","c","u","r","r","e","d">>)
    \o "}" \o "\n\n"

(***************************************************************************)
(* The response's ReadableStream and its controller.  state is "none"      *)
(* before the stream exists, "readable" once constructed, "closed" after   *)
(* controller.close(), "cancelled" after the client cancelled it (the      *)
(* stream is then closed to the controller).  body is every chunk          *)
(* enqueued, in order; attempts records every controller.enqueue call and  *)
(* whether it returned (ok) or threw.  threw says that the last controller *)
(* call of the running callback threw.                                     *)
(***************************************************************************)
NoStream == [state |-> "none", body |-> << >>, attempts |-> << >>, threw |-> FALSE]

NewStream == [state |-> "readable", body |-> << >>, attempts |-> << >>, threw |-> FALSE]

\* controller.enqueue(chunk): throws a TypeError unless the stream is readable
enqueue(s, chunk) ==
    IF s.state = "readable"
    THEN [s EXCEPT !.body = Append(@, chunk),
                   !.attempts = Append(@, [chunk |-> chunk, ok |-> TRUE]),
                   !.threw = FALSE]
    ELSE [s EXCEPT !.attempts = Append(@, [chunk |-> chunk, ok |-> FALSE]),
                   !.threw = TRUE]

\* controller.close(): throws a TypeError unless the stream is readable
close(s) ==
    IF s.state = "readable"
    THEN [s EXCEPT !.state = "closed", !.threw = FALSE]
    ELSE [s EXCEPT !.threw = TRUE]

(***************************************************************************)
(* start(controller), lines 124-145, one operator per resumption of the    *)
(* for-await loop.  Each gives the stream after the run.                   *)
(***************************************************************************)
\* the catch block (lines 137-144); a throw inside it rejects start()
catchBlock(s) ==
    LET s1 == enqueue(s, errorData)
    IN  IF s1.threw THEN s1 ELSE close(s1)

\* a loop body that keeps the chunk instead of enqueuing it
onChunkBuffered(s, chunk) == s

\* the loop body for one chunk (lines 126-130)
onChunk(s, chunk) ==
    LET s1 == enqueue(s, sseData(chunk))
    IN  IF s1.threw THEN catchBlock(s1) ELSE s1

\* the end of the loop without the [DONE] event
onDoneNoSignal(s) ==
    LET s1 == close(s)
    IN  IF s1.threw THEN catchBlock(s1) ELSE s1

\* an end of the loop that writes the error event after the [DONE] event
onDoneThenError(s) ==
    LET s1 == enqueue(s, doneSignal)
    IN  catchBlock(s1)

\* an end of the loop that never closes the stream
onDoneNoClose(s) ==
    LET s1 == enqueue(s, doneSignal)
    IN  IF s1.threw THEN catchBlock(s1) ELSE s1

\* the iteration is exhausted (lines 132-136)
onDone(s) ==
    LET s1 == enqueue(s, doneSignal)
    IN  IF s1.threw THEN catchBlock(s1)
        ELSE LET s2 == close(s1)
             IN  IF s2.threw THEN catchBlock(s2) ELSE s2

\* a catch block that ends the stream as a normal exhaustion does
onErrorAsDone(s) == onDone(s)

\* the iteration throws (line 137)
onError(s) == catchBlock(s)

(***************************************************************************)
(* The handler of POST /chat (lines 94-170).                               *)
(***************************************************************************)
\* line 110
SystemPrompt ==
    "You are a helpful assistant. Keep all your responses on topic and professional. Do not deviate from the question being asked. Return your responses in markdown format."

\* line 106
ModelId == "deepseek/deepseek-chat-v3.1:free"

\* the same call with the messages passed through, without the system one
streamTextArgsNoSystem(messages) == [model |-> ModelId, messages |-> messages]

\* the arguments of streamText (lines 105-113)
streamTextArgs(messages) ==
    [model |-> ModelId,
     messages |-> << [role |-> "system", content |-> SystemPrompt] >> \o messages]

\* new Response(stream, {headers}) (lines 148-156): status 200
StreamResponse ==
    [status |-> 200,
     headers |-> [contentType |-> "text/event-stream", cacheControl |-> "no-cache"]]

NoResponse == [status |-> 0]

\* a catch that always answers with the generic message
InternalServerErrorGeneric(error) ==
    [status |-> 500,
     json |-> [error |-> "Internal Server Error",
               message |-> "An unexpected error occurred"]]

\* the catch of the handler (lines 157-169)
InternalServerError(error) ==
    [status |-> 500,
     json |-> [error |-> "Internal Server Error",
               message |-> IF error.isError THEN error.message
                           ELSE "An unexpected error occurred"]]

\* The handler runs without an await from its first line to its return:
\* it throws before the provider is called (createOpenRouter, line 101),
\* or in the call of streamText (line 105), or it constructs the stream,
\* whose start() runs to its first await, and returns the response.
chatHandler(r) ==
    \/ \E error \in Thrown :
          /\ caught' = [caught EXCEPT ![r] = error]
          /\ response' = [response EXCEPT ![r] = InternalServerError(error)]
          /\ pc' = [pc EXCEPT ![r] = "Failed"]
          /\ UNCHANGED <<req, calls, adapter, delivered, stream>>
    \/ \E error \in Thrown :
          /\ calls' = [calls EXCEPT ![r] = Append(@, streamTextArgs(req[r].messages))]
          /\ caught' = [caught EXCEPT ![r] = error]
          /\ response' = [response EXCEPT ![r] = InternalServerError(error)]
          /\ pc' = [pc EXCEPT ![r] = "Failed"]
          /\ UNCHANGED <<req, adapter, delivered, stream>>
    \/ /\ calls' = [calls EXCEPT ![r] = Append(@, streamTextArgs(req[r].messages))]
       /\ adapter' = [adapter EXCEPT ![r] = "pending"]
       /\ stream' = [stream EXCEPT ![r] = NewStream]
       /\ response' = [response EXCEPT ![r] = StreamResponse]
       /\ pc' = [pc EXCEPT ![r] = "Streaming"]
       /\ UNCHANGED <<req, caught, delivered>>

(***************************************************************************)
(* Routing: a request is handled by the first registered route that        *)
(* matches its method and path (lines 60, 173, 181, 183).                  *)
(***************************************************************************)
\* the same registrations with the catch-all ahead of the OPTIONS route
routeCatchAllFirst(method, path) ==
    IF method = "POST" /\ path = "/chat" THEN "chat"
    ELSE IF method = "GET" /\ path = "/health" THEN "health"
    ELSE "notFound"

route(method, path) ==
    IF method = "POST" /\ path = "/chat" THEN "chat"
    ELSE IF method = "GET" /\ path = "/health" THEN "health"
    ELSE IF method = "OPTIONS" THEN "options"
    ELSE "notFound"

\* new HTTPException(404, {message: `Route ${method} ${path} not found`})
RouteNotFound(method, path) ==
    [isHTTPException |-> TRUE, isError |-> TRUE, status |-> 404,
     message |-> "Route " \o method \o " " \o path \o " not found"]

\* app.onError (lines 37-58)
appOnError(err) ==
    IF err.isHTTPException
    THEN [status |-> err.status,
          json |-> [error |-> "HTTP Exception", message |-> err.message]]
    ELSE [status |-> 500,
          json |-> [error |-> "Internal Server Error",
                    message |-> IF err.isError THEN err.message
                                ELSE "An unexpected error occurred"]]

\* a liveness route that probes the provider before answering
HealthCallsProvider(r) ==
    /\ pc[r] = "Received"
    /\ route(req[r].method, req[r].path) = "health"
    /\ \E now \in Timestamps :
          response' = [response EXCEPT ![r] =
                          [status |-> 200,
                           json |-> [status |-> "healthy", timestamp |-> now]]]
    /\ calls' = [calls EXCEPT ![r] = Append(@, streamTextArgs(<< >>))]
    /\ pc' = [pc EXCEPT ![r] = "Answered"]
    /\ UNCHANGED <<req, issues, caught, adapter, delivered, stream>>

\* app.get("/health") (lines 173-178)
Health(r) ==
    /\ pc[r] = "Received"
    /\ route(req[r].method, req[r].path) = "health"
    /\ \E now \in Timestamps :
          response' = [response EXCEPT ![r] =
                          [status |-> 200,
                           json |-> [status |-> "healthy", timestamp |-> now]]]
    /\ pc' = [pc EXCEPT ![r] = "Answered"]
    /\ UNCHANGED <<req, issues, caught, calls, adapter, delivered, stream>>

\* app.options("*") (line 181): ctx.text("")
Options(r) ==
    /\ pc[r] = "Received"
    /\ route(req[r].method, req[r].path) = "options"
    /\ response' = [response EXCEPT ![r] = [status |-> 200, text |-> ""]]
    /\ pc' = [pc EXCEPT ![r] = "Answered"]
    /\ UNCHANGED <<req, issues, caught, calls, adapter, delivered, stream>>

\* app.all("*") (lines 183-188): throws the 404, which app.onError answers
NotFound(r) ==
    /\ pc[r] = "Received"
    /\ route(req[r].method, req[r].path) = "notFound"
    /\ response' = [response EXCEPT ![r] =
                       appOnError(RouteNotFound(req[r].method, req[r].path))]
    /\ pc' = [pc EXCEPT ![r] = "Answered"]
    /\ UNCHANGED <<req, issues, caught, calls, adapter, delivered, stream>>

(***************************************************************************)
(* The validator middleware of POST /chat (lines 62-93).                   *)
(***************************************************************************)
\* the request body has been read and parsed as JSON
ParseBody(r) ==
    /\ pc[r] = "Received"
    /\ route(req[r].method, req[r].path) = "chat"
    /\ pc' = [pc EXCEPT ![r] = "Validating"]
    /\ UNCHANGED <<req, issues, response, caught, calls, adapter, delivered, stream>>

\* a middleware that calls the handler whatever the parse found
zValidatorAlwaysNext(r) ==
    /\ pc[r] = "Validating"
    /\ issues' = [issues EXCEPT ![r] = safeParse(req[r]).issues]
    /\ chatHandler(r)

\* the body is parsed with the schema; the hook answers a failure with
\* 400, and otherwise next() runs the handler
zValidator(r) ==
    /\ pc[r] = "Validating"
    /\ LET result == safeParse(req[r])
       IN  /\ issues' = [issues EXCEPT ![r] = result.issues]
           /\ IF ~result.success
              THEN /\ response' = [response EXCEPT ![r] = ValidationError(result)]
                   /\ pc' = [pc EXCEPT ![r] = "Rejected"]
                   /\ UNCHANGED <<req, caught, calls, adapter, delivered, stream>>
              ELSE chatHandler(r)

(***************************************************************************)
(* The resumptions of start(controller) (lines 124-145) and the client.    *)
(***************************************************************************)
\* a loop body that writes to every open stream (a controller kept in a
\* variable shared by the requests)
AdapterYieldShared(r) ==
    /\ pc[r] = "Streaming"
    /\ adapter[r] = "pending"
    /\ Len(delivered[r]) < MaxFragments
    /\ \E chunk \in Fragments :
          /\ delivered' = [delivered EXCEPT ![r] = Append(@, chunk)]
          /\ stream' = [q \in Requests |->
                           IF q = r \/ stream[q].state = "readable"
                           THEN onChunk(stream[q], chunk) ELSE stream[q]]
    /\ adapter' = [adapter EXCEPT ![r] =
                      IF stream[r].state = "readable" THEN "pending" ELSE "returned"]
    /\ pc' = [pc EXCEPT ![r] =
                 IF stream[r].state = "readable" THEN "Streaming" ELSE "Aborted"]
    /\ UNCHANGED <<req, issues, response, caught, calls>>

\* result.textStream yields a chunk
AdapterYield(r) ==
    /\ pc[r] = "Streaming"
    /\ adapter[r] = "pending"
    /\ Len(delivered[r]) < MaxFragments
    /\ \E chunk \in Fragments :
          /\ delivered' = [delivered EXCEPT ![r] = Append(@, chunk)]
          /\ stream' = [stream EXCEPT ![r] = onChunk(@, chunk)]
    \* a throw in the loop body leaves the loop, which returns the iterator
    /\ adapter' = [adapter EXCEPT ![r] =
                      IF stream[r].state = "readable" THEN "pending" ELSE "returned"]
    /\ pc' = [pc EXCEPT ![r] =
                 IF stream[r].state = "readable" THEN "Streaming" ELSE "Aborted"]
    /\ UNCHANGED <<req, issues, response, caught, calls>>

\* result.textStream is exhausted
AdapterDone(r) ==
    /\ pc[r] = "Streaming"
    /\ adapter[r] = "pending"
    /\ adapter' = [adapter EXCEPT ![r] = "exhausted"]
    /\ stream' = [stream EXCEPT ![r] = onDone(@)]
    /\ pc' = [pc EXCEPT ![r] =
                 IF stream[r].state = "readable" THEN "Completed" ELSE "Aborted"]
    /\ UNCHANGED <<req, issues, response, caught, calls, delivered>>

\* the iteration of result.textStream throws
AdapterFail(r) ==
    /\ pc[r] = "Streaming"
    /\ adapter[r] = "pending"
    /\ adapter' = [adapter EXCEPT ![r] = "failed"]
    /\ stream' = [stream EXCEPT ![r] = onError(@)]
    /\ pc' = [pc EXCEPT ![r] = "Aborted"]
    /\ UNCHANGED <<req, issues, response, caught, calls, delivered>>

\* the client disconnects: the response's stream is cancelled
ClientCancel(r) ==
    /\ pc[r] = "Streaming"
    /\ stream[r].state = "readable"
    /\ stream' = [stream EXCEPT ![r].state = "cancelled"]
    /\ UNCHANGED <<req, pc, issues, response, caught, calls, adapter, delivered>>

(***************************************************************************)
(* The specification: the requests of R have arrived, each with a body.    *)
(***************************************************************************)
InitWith(R, inputs) ==
    /\ req \in [R -> inputs]
    /\ pc = [r \in R |-> "Received"]
    /\ issues = [r \in R |-> << >>]
    /\ response = [r \in R |-> NoResponse]
    /\ caught = [r \in R |-> NoError]
    /\ calls = [r \in R |-> << >>]
    /\ adapter = [r \in R |-> "idle"]
    /\ delivered = [r \in R |-> << >>]
    /\ stream = [r \in R |-> NoStream]

Init == InitWith({"r1"}, ChatRequests \cup OtherRequests)

Next ==
    \/ \E r \in Requests : Health(r)
    \/ \E r \in Requests : Options(r)
    \/ \E r \in Requests : NotFound(r)
    \/ \E r \in Requests : ParseBody(r)
    \/ \E r \in Requests : zValidator(r)
    \/ \E r \in Requests : AdapterYield(r)
    \/ \E r \in Requests : AdapterDone(r)
    \/ \E r \in Requests : AdapterFail(r)
    \/ \E r \in Requests : ClientCancel(r)

Spec == Init /\ [][Next]_vars

(***************************************************************************)
(* Fairness: the runtime runs a request's middleware and handler once the  *)
(* request is in, and a finite textStream always comes to its next         *)
(* outcome: a fragment, its exhaustion or its failure.  Nothing makes the  *)
(* client cancel.                                                          *)
(***************************************************************************)
RequestIds == {"r1", "r2"}

HandlerStep(r) ==
    Health(r) \/ Options(r) \/ NotFound(r) \/ ParseBody(r) \/ zValidator(r)

AdapterStep(r) == AdapterYield(r) \/ AdapterDone(r) \/ AdapterFail(r)

Fairness ==
    \A r \in RequestIds :
        /\ WF_vars(r \in Requests /\ HandlerStep(r))
        /\ WF_vars(r \in Requests /\ AdapterStep(r))

SpecFair == Init /\ [][Next]_vars /\ Fairness

(***************************************************************************)
(* Two requests in flight at once, each for any route; the bodies of the   *)
(* POST /chat ones are the lists of at most one message.                   *)
(***************************************************************************)
ConcurrentInputs ==
    {q \in ChatRequests : Len(q.messages) <= 1} \cup OtherRequests

InitConcurrent == InitWith({"r1", "r2"}, ConcurrentInputs)

SpecConcurrent == InitConcurrent /\ [][Next]_vars

(***************************************************************************)
(* Vocabulary of the properties.                                           *)
(***************************************************************************)
\* the validator has run on r's body
Validated(r) == pc[r] \notin {"Received", "Validating", "Answered"}

\* r is a request for POST /chat
IsChat(r) == route(req[r].method, req[r].path) = "chat"

\* every element has a role of the enum and a non-empty content
WellFormed(messages) ==
    \A i \in 1..Len(messages) :
        messages[i].role \in Roles /\ messages[i].content # ""

\* the alternation rule as the specification words it
AlternationRule(messages) ==
    /\ Len(messages) >= 1
    /\ messages[Len(messages)].role = "user"
    /\ \A i \in 1..(Len(messages) - 1) : messages[i].role # messages[i + 1].role
    /\ Len(messages) % 2 = 1 => messages[1].role = "user"
    /\ Len(messages) % 2 = 0 => messages[1].role = "assistant"

RolesOf(messages) == [i \in 1..Len(messages) |-> messages[i].role]

PatternIssue == Issue(<<"messages">>, PatternMessage, "custom")

IssueSet(r) == {issues[r][i] : i \in 1..Len(issues[r])}

(***************************************************************************)
(* C1: for every message list whose elements all have a role in {user,     *)
(* assistant} and a non-empty content, the validator of POST /chat accepts *)
(* the list if and only if it is non-empty, its last role is user, no two  *)
(* adjacent messages share a role, and its first role is user when the     *)
(* length is odd and assistant when it is even; a list violating one of    *)
(* these is rejected (400) with a non-empty issue list.                    *)
(***************************************************************************)
C1_ValidatorAcceptsIffPattern ==
    \A r \in Requests :
        Validated(r) /\ WellFormed(req[r].messages) =>
            /\ (pc[r] # "Rejected" /\ issues[r] = << >>)
                   <=> AlternationRule(req[r].messages)
            /\ ~AlternationRule(req[r].messages) =>
                   /\ pc[r] = "Rejected"
                   /\ Len(issues[r]) >= 1
                   /\ response[r].status = 400
                   /\ Len(response[r].json.details) = Len(issues[r])

\* the specification's accepted example shape: three well-formed messages,
\* user, assistant, user, validated and passed on to the handler
C1_Witness ==
    \E r \in Requests :
        /\ Validated(r)
        /\ WellFormed(req[r].messages)
        /\ RolesOf(req[r].messages) = <<"user", "assistant", "user">>
        /\ pc[r] = "Streaming"
        /\ issues[r] = << >>

(***************************************************************************)
(* C7 as claimed: a two-message list with roles [assistant, user] and      *)
(* non-empty contents is rejected by the validator with the                *)
(* pattern-invalid issue.                                                  *)
(***************************************************************************)
C7_AssistantUserRejected ==
    \A r \in Requests :
        /\ Validated(r)
        /\ WellFormed(req[r].messages)
        /\ RolesOf(req[r].messages) = <<"assistant", "user">>
        => pc[r] = "Rejected" /\ PatternIssue \in IssueSet(r)

(***************************************************************************)
(* C7 as amended: a two-message list with roles [assistant, user] and      *)
(* non-empty contents is accepted by the validator: it has an even length, *)
(* starts with assistant, alternates and ends with user, so no issue is    *)
(* reported and the request is not answered 400.                           *)
(***************************************************************************)
C7_AssistantUserAccepted ==
    \A r \in Requests :
        /\ Validated(r)
        /\ WellFormed(req[r].messages)
        /\ RolesOf(req[r].messages) = <<"assistant", "user">>
        => /\ pc[r] # "Rejected"
           /\ issues[r] = << >>
           /\ response[r].status # 400

C7_Witness ==
    \E r \in Requests :
        /\ WellFormed(req[r].messages)
        /\ RolesOf(req[r].messages) = <<"assistant", "user">>
        /\ pc[r] = "Streaming"
        /\ response[r].status = 200

\* the content events of a fragment sequence, in order
Frames(fragments) == [i \in 1..Len(fragments) |-> sseData(fragments[i])]

IsContentEvent(event) == event \notin {doneSignal, errorData}

\* the content events among the chunks written to a response body
ContentEvents(body) == SelectSeq(body, IsContentEvent)

IsPrefix(s, t) == Len(s) <= Len(t) /\ s = SubSeq(t, 1, Len(s))

Occurrences(body, event) == Cardinality({i \in 1..Len(body) : body[i] = event})

\* the client has not cancelled r's response stream
Connected(r) == stream[r].state # "cancelled"

(***************************************************************************)
(* C2: for every finite fragment sequence f1..fn (n >= 0) that the adapter *)
(* delivers and then exhausts without failure, to a client that has not    *)
(* disconnected, the SSE body is exactly the n content events of f1..fn in *)
(* adapter order followed by exactly one [DONE] event, the stream is       *)
(* closed, and it stays so: no state with the adapter exhausted holds any  *)
(* further event.                                                          *)
(***************************************************************************)
C2_ExhaustionFraming ==
    \A r \in Requests :
        /\ adapter[r] = "exhausted" /\ Connected(r) =>
              /\ stream[r].body = Frames(delivered[r]) \o << doneSignal >>
              /\ Occurrences(stream[r].body, doneSignal) = 1
              /\ stream[r].state = "closed"
              /\ pc[r] = "Completed"
              /\ response[r].status = 200
        /\ pc[r] = "Completed" => adapter[r] = "exhausted" /\ Connected(r)

\* two fragments delivered, then exhaustion: three events and the stream closed
C2_Witness ==
    \E r \in Requests :
        /\ adapter[r] = "exhausted"
        /\ Len(delivered[r]) = 2
        /\ delivered[r][1] # delivered[r][2]
        /\ Len(stream[r].body) = 3
        /\ stream[r].body[3] = doneSignal
        /\ stream[r].state = "closed"

(***************************************************************************)
(* C3: when the adapter fails during iteration after delivering k >= 0     *)
(* fragments, to a client that has not disconnected, the SSE body is       *)
(* exactly those k content events in order followed by exactly one         *)
(* {"error":"Stream error occurred"} event, and the stream is closed; no   *)
(* [DONE] event is written on this path.                                   *)
(***************************************************************************)
C3_FailureFraming ==
    \A r \in Requests :
        adapter[r] = "failed" =>
            /\ Occurrences(stream[r].body, doneSignal) = 0
            /\ pc[r] = "Aborted"
            /\ Connected(r) =>
                  /\ stream[r].body = Frames(delivered[r]) \o << errorData >>
                  /\ Occurrences(stream[r].body, errorData) = 1
                  /\ stream[r].state = "closed"

\* one fragment delivered, then the failure: the content event, the error event
C3_Witness ==
    \E r \in Requests :
        /\ adapter[r] = "failed"
        /\ Len(delivered[r]) = 1
        /\ stream[r].body = << sseData(delivered[r][1]), errorData >>
        /\ stream[r].state = "closed"

(***************************************************************************)
(* C8: during streaming, in every reachable state the content events       *)
(* written to the response are exactly the fragments the adapter has       *)
(* delivered so far, in the same order (a fragment is written in the run   *)
(* that receives it, before the next one is pulled); in every state the    *)
(* content events written are a prefix of the delivered fragments' events; *)
(* and the [DONE] event is written only once the adapter has signalled     *)
(* exhaustion.                                                             *)
(***************************************************************************)
C8_WrittenFollowsDelivered ==
    \A r \in Requests :
        /\ pc[r] = "Streaming" => stream[r].body = Frames(delivered[r])
        /\ IsPrefix(ContentEvents(stream[r].body), Frames(delivered[r]))
        /\ Occurrences(stream[r].body, doneSignal) > 0 => adapter[r] = "exhausted"

\* mid-stream: two fragments delivered and both already written
C8_Witness ==
    \E r \in Requests :
        /\ pc[r] = "Streaming"
        /\ adapter[r] = "pending"
        /\ Len(delivered[r]) = 2
        /\ stream[r].body = << sseData(delivered[r][1]), sseData(delivered[r][2]) >>

(***************************************************************************)
(* C5 as claimed: an adapter failure that occurs before the first byte of  *)
(* the response body has been sent, the failure of the very first fragment *)
(* pull included, is reported with HTTP status 500 and not as a 200        *)
(* response carrying an in-band error event.                               *)
(***************************************************************************)
C5_EarlyFailureIs500 ==
    \A r \in Requests :
        adapter[r] = "failed" /\ delivered[r] = << >> =>
            /\ response[r].status = 500
            /\ Occurrences(stream[r].body, errorData) = 0

(***************************************************************************)
(* C6 as claimed: after a write to the response stream has failed (the     *)
(* client disconnected), the framer attempts no other write on that        *)
(* stream: a failed controller.enqueue is the last one of its stream.      *)
(***************************************************************************)
C6_NoWriteAfterFailedWrite ==
    \A r \in Requests :
        \A i \in 1..(Len(stream[r].attempts) - 1) : stream[r].attempts[i].ok

(***************************************************************************)
(* C4: the completion provider is invoked only for requests whose message  *)
(* list passed validation: in every reachable state a request whose body   *)
(* fails the schema has made no provider call and has no stream, a         *)
(* rejected request carries the 400 response with its issue list, and a    *)
(* request that made a provider call was validated without an issue.       *)
(***************************************************************************)
C4_RejectedNeverReachesProvider ==
    \A r \in Requests :
        /\ ~safeParse(req[r]).success =>
              /\ calls[r] = << >>
              /\ adapter[r] = "idle"
              /\ stream[r] = NoStream
        /\ pc[r] = "Rejected" =>
              /\ ~safeParse(req[r]).success
              /\ response[r].status = 400
              /\ Len(response[r].json.details) >= 1
        /\ calls[r] # << >> => Validated(r) /\ issues[r] = << >>

\* a request rejected for its pattern alone, answered 400, with no call made
C4_Witness ==
    \E r \in Requests :
        /\ pc[r] = "Rejected"
        /\ WellFormed(req[r].messages)
        /\ Len(req[r].messages) = 2
        /\ issues[r] = << PatternIssue >>
        /\ response[r].status = 400
        /\ calls[r] = << >>

(***************************************************************************)
(* C10: if an exception is thrown in the handler after validation passed   *)
(* and before the streaming response is returned, the request ends with    *)
(* HTTP 500 and the body {error: "Internal Server Error", message}, where  *)
(* message is the thrown Error's message, or the generic text when the     *)
(* thrown value is no Error; no stream is constructed and no body written. *)
(***************************************************************************)
C10_HandlerExceptionIs500 ==
    \A r \in Requests :
        /\ caught[r] # NoError =>
              /\ pc[r] = "Failed"
              /\ issues[r] = << >>
              /\ response[r].status = 500
              /\ response[r].json.error = "Internal Server Error"
              /\ caught[r].isError => response[r].json.message = caught[r].message
              /\ ~caught[r].isError =>
                     response[r].json.message = "An unexpected error occurred"
              /\ stream[r] = NoStream
              /\ delivered[r] = << >>
        /\ pc[r] = "Failed" => caught[r] # NoError

\* streamText threw an Error after validation passed: 500 with its message
C10_Witness ==
    \E r \in Requests :
        /\ pc[r] = "Failed"
        /\ caught[r].isError
        /\ calls[r] # << >>
        /\ response[r].status = 500
        /\ response[r].json.message = "Missing API key"
        /\ stream[r] = NoStream

(***************************************************************************)
(* The transitions of a request's life.                                    *)
(***************************************************************************)
ListedTransitions ==
    { <<"Received", "Validating">>,
      <<"Validating", "Rejected">>, <<"Validating", "Streaming">>,
      <<"Streaming", "Completed">>, <<"Streaming", "Aborted">> }

AmendedTransitions == ListedTransitions \cup { <<"Validating", "Failed">> }

(***************************************************************************)
(* C9 as claimed: every POST /chat request moves only along the            *)
(* transitions Received -> Validating -> (Rejected | Streaming) ->         *)
(* (Completed | Aborted).                                                  *)
(***************************************************************************)
C9_OnlyListedTransitions ==
    [][ \A r \in Requests :
            IsChat(r) /\ pc'[r] # pc[r] => <<pc[r], pc'[r]>> \in ListedTransitions ]_vars

(***************************************************************************)
(* C9 as amended: every POST /chat request moves only along the            *)
(* transitions Received -> Validating -> (Rejected | Streaming | Failed),  *)
(* Streaming -> (Completed | Aborted), where Failed is the HTTP 500 answer *)
(* to an exception thrown by the handler before the streaming response is  *)
(* returned.  Streaming is entered only from Validating with an empty      *)
(* issue list, Completed and Aborted only from Streaming, Failed only from *)
(* Validating with an empty issue list; no request is both rejected (400)  *)
(* and given a stream; Rejected, Failed, Completed and Aborted have no     *)
(* outgoing transition.                                                    *)
(***************************************************************************)
C9_AmendedTransitions ==
    /\ [][ \A r \in Requests :
              /\ IsChat(r) /\ pc'[r] # pc[r] =>
                     <<pc[r], pc'[r]>> \in AmendedTransitions
              /\ pc'[r] \in {"Streaming", "Failed"} /\ pc[r] # pc'[r] =>
                     /\ pc[r] = "Validating"
                     /\ issues'[r] = << >>
                     /\ safeParse(req[r]).success
              /\ pc'[r] = "Rejected" /\ pc[r] # pc'[r] => issues'[r] # << >>
              /\ pc[r] \in {"Rejected", "Failed", "Completed", "Aborted"} =>
                     pc'[r] = pc[r] ]_vars
    /\ [](\A r \in Requests :
              /\ ~(response[r].status = 400 /\ stream[r].state # "none")
              /\ pc[r] = "Rejected" <=> response[r].status = 400
              /\ pc[r] \in {"Streaming", "Completed", "Aborted"}
                     <=> stream[r].state # "none")

\* a request that left Validating for Failed: the handler threw
C9_Witness ==
    \E r \in Requests :
        /\ pc[r] = "Failed"
        /\ issues[r] = << >>
        /\ response[r].status = 500
        /\ stream[r].state = "none"

(***************************************************************************)
(* C11: every request whose (method, path) is not a registered route       *)
(* (POST /chat, GET /health, OPTIONS on any path) is answered with HTTP    *)
(* 404 and the body {error: "HTTP Exception", message: "Route <METHOD>     *)
(* <PATH> not found"} naming that request's method and path; a request to  *)
(* a registered route is never answered 404.                               *)
(***************************************************************************)
Registered(q) ==
    \/ q.method = "POST" /\ q.path = "/chat"
    \/ q.method = "GET" /\ q.path = "/health"
    \/ q.method = "OPTIONS"

C11_UnregisteredIs404 ==
    \A r \in Requests :
        /\ ~Registered(req[r]) /\ pc[r] # "Received" =>
              /\ pc[r] = "Answered"
              /\ response[r].status = 404
              /\ response[r].json.error = "HTTP Exception"
              /\ response[r].json.message =
                     "Route " \o req[r].method \o " " \o req[r].path \o " not found"
        /\ Registered(req[r]) => response[r].status # 404

\* the specification's example: GET /nonexistent
C11_Witness ==
    \E r \in Requests :
        /\ req[r].method = "GET"
        /\ req[r].path = "/nonexistent"
        /\ response[r].status = 404
        /\ response[r].json.message = "Route GET /nonexistent not found"

(***************************************************************************)
(* C12 as claimed: the alternation rule is evaluated only on lists that    *)
(* passed the non-empty check and the element checks: for the empty list,  *)
(* and for any list holding an element with an empty content or a role     *)
(* outside {user, assistant}, the reported issues hold no pattern-invalid  *)
(* issue, and the empty list is reported with the "Messages array cannot   *)
(* be empty" issue only.                                                   *)
(***************************************************************************)
C12_PatternOnlyAfterChecks ==
    \A r \in Requests :
        IsChat(r) /\ Validated(r) /\ ~(Len(req[r].messages) >= 1 /\ WellFormed(req[r].messages)) =>
            /\ PatternIssue \notin IssueSet(r)
            /\ Len(req[r].messages) = 0 =>
                   issues[r] = << Issue(<<"messages">>, EmptyArrayMessage, "too_small") >>

(***************************************************************************)
(* C16: for a validated list of n messages the provider is called once,    *)
(* with a list of exactly n + 1 messages: the fixed system instruction     *)
(* first, then the n validated messages with their roles and contents      *)
(* unchanged and in their original order.                                  *)
(***************************************************************************)
C16_ProviderGetsSystemThenMessages ==
    \A r \in Requests :
        /\ Len(calls[r]) <= 1
        /\ pc[r] \in {"Streaming", "Completed", "Aborted"} => Len(calls[r]) = 1
        /\ \A k \in 1..Len(calls[r]) :
              LET sent == calls[r][k].messages
                  n == Len(req[r].messages)
              IN  /\ IsChat(r) /\ issues[r] = << >> /\ n >= 1
                  /\ Len(sent) = n + 1
                  /\ sent[1].role = "system"
                  /\ sent[1].content = SystemPrompt
                  /\ \A i \in 1..n :
                        /\ sent[i + 1].role = req[r].messages[i].role
                        /\ sent[i + 1].content = req[r].messages[i].content

\* three validated messages sent as four
C16_Witness ==
    \E r \in Requests :
        /\ Len(req[r].messages) = 3
        /\ Len(calls[r]) = 1
        /\ Len(calls[r][1].messages) = 4
        /\ calls[r][1].messages[1].role = "system"
        /\ pc[r] = "Streaming"

(***************************************************************************)
(* C17: in every reachable state of a response stream at most one terminal *)
(* event has been written (the [DONE] event or the error event, never      *)
(* both), and it is the last chunk of the body; once the stream is closed  *)
(* it is not closed again and nothing more is written or attempted on it,  *)
(* and nothing is written once the client has cancelled it.                *)
(***************************************************************************)
C17_OneTerminalEventOneClose ==
    /\ [](\A r \in Requests :
              /\ Occurrences(stream[r].body, doneSignal)
                     + Occurrences(stream[r].body, errorData) <= 1
              /\ \A i \in 1..(Len(stream[r].body) - 1) :
                     IsContentEvent(stream[r].body[i])
              /\ stream[r].state = "closed" <=>
                     (Len(stream[r].body) >= 1
                      /\ ~IsContentEvent(stream[r].body[Len(stream[r].body)])))
    /\ [][ \A r \in Requests :
              /\ stream[r].state = "closed" => stream'[r] = stream[r]
              /\ stream[r].state = "cancelled" =>
                     /\ stream'[r].state = "cancelled"
                     /\ stream'[r].body = stream[r].body ]_vars

\* a closed stream whose body ends with the error event after a content event
C17_Witness ==
    \E r \in Requests :
        /\ stream[r].state = "closed"
        /\ Len(stream[r].body) = 2
        /\ stream[r].body[2] = errorData
        /\ IsContentEvent(stream[r].body[1])

(***************************************************************************)
(* C18: the parity sub-check of validateMessagePattern is implied by the   *)
(* other two: on every list with roles in {user, assistant} the function   *)
(* returns what (non-empty, last role user, no two adjacent roles equal)   *)
(* gives, it never returns by one of the two parity checks, and on the     *)
(* empty list it returns false at the last-message check, before           *)
(* messages[0] is read.                                                    *)
(***************************************************************************)
LastUserAndAlternating(messages) ==
    /\ Len(messages) >= 1
    /\ messages[Len(messages)].role = "user"
    /\ \A i \in 1..(Len(messages) - 1) : messages[i].role # messages[i + 1].role

C18_ParityCheckRedundant ==
    \A r \in Requests :
        IsChat(r) /\ Validated(r) /\ ~ParseAborted(req[r].messages) =>
            /\ validateMessagePattern(req[r].messages)
                   <=> LastUserAndAlternating(req[r].messages)
            /\ PatternIssue \in IssueSet(r)
                   <=> ~LastUserAndAlternating(req[r].messages)
            /\ returnSite(req[r].messages) \notin {"oddNotUser", "evenNotAssistant"}
            /\ Len(req[r].messages) = 0 =>
                   returnSite(req[r].messages) = "lastNotUser"

\* a three-message list that ends with user and has two equal adjacent roles,
\* rejected by the loop
C18_Witness ==
    \E r \in Requests :
        /\ pc[r] = "Rejected"
        /\ RolesOf(req[r].messages) = <<"assistant", "assistant", "user">>
        /\ returnSite(req[r].messages) = "adjacentEqual"
        /\ PatternIssue \in IssueSet(r)

(***************************************************************************)
(* C15 as claimed: under fairness and a finite adapter sequence, every     *)
(* POST /chat request eventually reaches one of the terminal states        *)
(* Rejected, Completed or Aborted.                                         *)
(***************************************************************************)
C15_EndsRejectedCompletedOrAborted ==
    <>(\A r \in Requests :
          IsChat(r) => pc[r] \in {"Rejected", "Completed", "Aborted"})

(***************************************************************************)
(* C15 as amended: under fairness and a finite adapter sequence, every     *)
(* POST /chat request eventually reaches exactly one terminal state among  *)
(* Rejected, Failed (the HTTP 500 of a throw in the handler), Completed    *)
(* and Aborted, and stays in it; and every stream that was opened is       *)
(* eventually closed, by controller.close() or by the client's cancel, and *)
(* stays closed.                                                           *)
(***************************************************************************)
C15_EveryRequestTerminates ==
    <>[](\A r \in Requests :
            /\ IsChat(r) => pc[r] \in {"Rejected", "Failed", "Completed", "Aborted"}
            /\ stream[r].state # "readable"
            /\ pc[r] \in {"Completed", "Aborted"} =>
                   stream[r].state \in {"closed", "cancelled"})

\* a request that ended Failed: none of the three states of the claim
C15_Witness ==
    \E r \in Requests :
        /\ IsChat(r)
        /\ pc[r] = "Failed"
        /\ calls[r] = << >>
        /\ ~caught[r].isError

\* everything the model holds of request r but the request itself
StateOf(r) ==
    <<pc[r], issues[r], response[r], caught[r], calls[r], adapter[r],
      delivered[r], stream[r]>>

(***************************************************************************)
(* C13: for any interleaving of two concurrent requests, each response     *)
(* stream holds exactly the content events of the fragments of its own     *)
(* adapter call, in order, with its own single terminal event; a step of   *)
(* one request changes nothing of another request (no fragment or terminal *)
(* event of one reaches the stream of another); and a request that can     *)
(* take its next step can take it whatever the other request is waiting    *)
(* on.                                                                     *)
(***************************************************************************)
C13_RequestsAreIsolated ==
    /\ [](\A r \in Requests :
              /\ IsPrefix(ContentEvents(stream[r].body), Frames(delivered[r]))
              /\ pc[r] = "Streaming" => stream[r].body = Frames(delivered[r])
              /\ pc[r] = "Completed" =>
                     stream[r].body = Frames(delivered[r]) \o << doneSignal >>
              /\ adapter[r] = "failed" /\ Connected(r) =>
                     stream[r].body = Frames(delivered[r]) \o << errorData >>
              /\ Occurrences(stream[r].body, doneSignal)
                     + Occurrences(stream[r].body, errorData) <= 1
              /\ pc[r] = "Received" /\ IsChat(r) => ENABLED ParseBody(r)
              /\ pc[r] = "Validating" => ENABLED zValidator(r)
              /\ pc[r] = "Streaming" /\ adapter[r] = "pending" =>
                     ENABLED AdapterDone(r) /\ ENABLED AdapterFail(r))
    /\ [][ \A r \in Requests : \A q \in Requests \ {r} :
              StateOf(r)' # StateOf(r) => StateOf(q)' = StateOf(q) ]_vars

\* both requests streaming, with different fragments delivered to each
C13_Witness ==
    \E r \in Requests : \E q \in Requests \ {r} :
        /\ pc[r] = "Streaming" /\ pc[q] = "Streaming"
        /\ Len(delivered[r]) = 2 /\ Len(delivered[q]) = 1
        /\ delivered[r][1] # delivered[q][1]
        /\ stream[r].body = Frames(delivered[r])
        /\ stream[q].body = Frames(delivered[q])

(***************************************************************************)
(* C14: handling GET /health never invokes the completion adapter and      *)
(* changes no state of any other request, in flight or later; it can       *)
(* always be answered, whatever the provider did to another request, and   *)
(* the answer is 200 with the status "healthy" and a timestamp.            *)
(***************************************************************************)
IsHealth(r) == req[r].method = "GET" /\ req[r].path = "/health"

C14_HealthHasNoEffect ==
    /\ [](\A r \in Requests :
              IsHealth(r) =>
                  /\ calls[r] = << >>
                  /\ adapter[r] = "idle"
                  /\ stream[r] = NoStream
                  /\ pc[r] \in {"Received", "Answered"}
                  /\ pc[r] = "Received" => ENABLED Health(r)
                  /\ pc[r] = "Answered" =>
                         /\ response[r].status = 200
                         /\ response[r].json.status = "healthy"
                         /\ response[r].json.timestamp \in Timestamps)
    /\ [][ \A r \in Requests :
              IsHealth(r) /\ pc[r] # pc'[r] =>
                  /\ \A q \in Requests \ {r} : StateOf(q)' = StateOf(q)
                  /\ req' = req
                  /\ calls' = calls /\ adapter' = adapter
                  /\ stream' = stream /\ delivered' = delivered ]_vars

\* GET /health answered 200 while the other request is in the middle of its
\* stream
C14_Witness ==
    \E r \in Requests : \E q \in Requests \ {r} :
        /\ IsHealth(r)
        /\ pc[r] = "Answered"
        /\ response[r].status = 200
        /\ pc[q] = "Streaming"
        /\ Len(delivered[q]) = 1

====
